---- MODULE Spec2Model ----
(***************************************************************************)
(* A model of main.py: the YAML loaders, the Sensor and Job classes, the   *)
(* main job/scenario loop, and the simulator's delivery of sensor          *)
(* callbacks.                                                              *)
(*                                                                         *)
(* Representation.                                                         *)
(*  - A file or scenario name is a sequence of tokens ("a", ".yaml", ...); *)
(*    a path is a sequence of names (its components).                      *)
(*  - An optional value is <<>> (None) or <<x>>.                           *)
(*  - A replay time is an integer numerator over the common denominator    *)
(*    carla_sim_max_count + 1, which makes total_t / (max_count + 1)       *)
(*    exact.                                                               *)
(*  - A persisted file is named after the frame number the simulator put   *)
(*    in the data; frame numbers of one sensor strictly increase, so the   *)
(*    k-th file a sensor persists is given the name k.                     *)
(***************************************************************************)
EXTENDS Integers, Sequences, FiniteSets, TLC

VARIABLES
    pc,                     \* position of the main thread
    input_listing,          \* os.listdir(load_path): the files of the input directory
    scenario_yaml,          \* the decoded content of the scenario YAML file
    carla_sim_max_count,    \* runtime.carla_sim_max_count
    carla_sim_time_random,  \* runtime.carla_sim_time_random
    loaded_jobs,            \* the Job objects, in load order
    loaded_scenario_infos,  \* the ScenarioInfo objects, in load order
    ji, si,                 \* the main loop's position: job index, scenario index
    replay_times,           \* Job.exec: local replay_times
    counter,                \* Job.exec: local counter
    cb_pc,                  \* per sensor of the running job: position inside _data_callback
    cb_last,                \* the outcome of the most recent _data_callback step
    sim_actors,             \* simulator: the sensor actors alive
    sim_listening,          \* simulator: the sensor actors with a listen callback
    sim_replay,             \* simulator: the replay starts requested in the current world
    fs_dirs,                \* file system: the directories under the output root
    fs_files,               \* file system: the files under the output root
    trace                   \* the Job methods the main loop has called, in order

vars == <<pc, input_listing, scenario_yaml, carla_sim_max_count, carla_sim_time_random,
          loaded_jobs, loaded_scenario_infos, ji, si, replay_times, counter,
          cb_pc, cb_last, sim_actors, sim_listening, sim_replay, fs_dirs, fs_files, trace>>

----------------------------------------------------------------------------
(* Bounds *)

MaxCount == 2      \* largest carla_sim_max_count explored
MaxRandom == 1     \* largest carla_sim_time_random explored (integer time units)
MaxTime == 2       \* largest scenario time_start / time_end explored
MaxFiles == 2      \* largest input directory explored by the loader specification

----------------------------------------------------------------------------
(* Optional values, sequences *)

None == <<>>
Some(x) == <<x>>

IsPrefix(p, q) == Len(p) <= Len(q) /\ \A i \in 1..Len(p) : p[i] = q[i]

Prefixes(p) == {SubSeq(p, 1, n) : n \in 1..Len(p)}

----------------------------------------------------------------------------
(* Names and paths *)

YamlExt == ".yaml"

\* str.endswith('.yaml')
endswith_yaml(name) == Len(name) > 0 /\ name[Len(name)] = YamlExt

\* str.replace('.yaml', ''): every occurrence is removed
replace_yaml(name) == SelectSeq(name, LAMBDA t : t # YamlExt)

\* the name without a trailing '.yaml' (what "the file without its suffix" means)
strip_suffix_yaml(name) ==
    IF endswith_yaml(name) THEN SubSeq(name, 1, Len(name) - 1) ELSE name

\* str(seq_id)
Digits == <<"0", "1", "2", "3", "4", "5", "6", "7", "8", "9">>
str(n) == <<Digits[n + 1]>>

\* os.path.join of relative components: an empty component adds nothing
path_join(components) == SelectSeq(components, LAMBDA c : c # <<>>)

\* runtime.io_output_directory
io_output_directory == <<"output">>

----------------------------------------------------------------------------
(* YAML sensor entries and JobYamlLoader.load_all *)

TransformKeys == {"x", "y", "z", "pitch", "yaw", "roll"}
EntryKeys == {"blueprint_name", "transform", "attribute"} \cup TransformKeys

\* A YAML sensor entry: its blueprint and the keys it holds (the transform
\* components are keys of the nested 'transform' mapping).
Entry(bp, keys) == [blueprint_name |-> bp, keys |-> keys]

\* The first key whose lookup fails while decoding one entry, in the order of
\* the lookups; "" when every lookup succeeds.
MissingKey(e) ==
    IF "blueprint_name" \notin e.keys THEN "blueprint_name"
    ELSE IF "transform" \notin e.keys THEN "transform"
    ELSE IF "x" \notin e.keys THEN "x"
    ELSE IF "y" \notin e.keys THEN "y"
    ELSE IF "z" \notin e.keys THEN "z"
    ELSE IF "pitch" \notin e.keys THEN "pitch"
    ELSE IF "yaw" \notin e.keys THEN "yaw"
    ELSE IF "roll" \notin e.keys THEN "roll"
    ELSE IF "attribute" \notin e.keys THEN "attribute"
    ELSE ""

SensorInfo(blueprint_name) == [blueprint_name |-> blueprint_name]

\* The body of the try block: the sensor infos decoded so far and whether a
\* KeyError was raised.
RECURSIVE DecodeSensors(_, _)
DecodeSensors(yaml_data, sensor_info_list) ==
    IF yaml_data = <<>> THEN [raised |-> FALSE, sensor_info_list |-> sensor_info_list]
    ELSE IF MissingKey(Head(yaml_data)) # ""
         THEN [raised |-> TRUE, sensor_info_list |-> sensor_info_list]
         ELSE DecodeSensors(Tail(yaml_data),
                            Append(sensor_info_list, SensorInfo(Head(yaml_data).blueprint_name)))

\* Job.__init__
Job(job_name, sensor_infos) ==
    [name |-> job_name, client |-> None, world |-> None, vehicle_actor |-> None,
     sensor_objs |-> <<>>, sensor_infos |-> sensor_infos, scenario_info |-> None]

\* except IndexError / except KeyError: continue
OnDecodeError(job_list, job_name, decoded) == job_list

JobName(yaml_file) == replace_yaml(yaml_file)

RECURSIVE LoadYamlFiles(_, _)
LoadYamlFiles(yaml_files, job_list) ==
    IF yaml_files = <<>> THEN job_list
    ELSE LET yaml_file == Head(yaml_files)
             job_name == JobName(yaml_file.name)
             decoded == DecodeSensors(yaml_file.data, <<>>)
         IN  LoadYamlFiles(Tail(yaml_files),
                 IF decoded.raised
                 THEN OnDecodeError(job_list, job_name, decoded)
                 ELSE Append(job_list, Job(job_name, decoded.sensor_info_list)))

\* JobYamlLoader.load_all
load_all(listing) ==
    LET yaml_files == SelectSeq(listing, LAMBDA f : endswith_yaml(f.name))
    IN  IF yaml_files = <<>> THEN <<>> ELSE LoadYamlFiles(yaml_files, <<>>)

\* ScenarioInfo.__init__ / ScenarioInfoYamlLoader.load_all
ScenarioInfo(name, path, t_start, t_end, ego_actor_id) ==
    [name |-> name, record_path |-> path, time_start |-> t_start, time_end |-> t_end,
     ego_vehicle_actor_id |-> ego_actor_id]

RECURSIVE load_all_scenarios(_)
load_all_scenarios(yaml_data) ==
    IF yaml_data = <<>> THEN <<>>
    ELSE LET d == Head(yaml_data)
         IN  <<ScenarioInfo(d.name, d.record_file, d.time.start, d.time.end,
                            d.ego_vehicle_actor_id)>>
             \o load_all_scenarios(Tail(yaml_data))

----------------------------------------------------------------------------
(* Sensor *)

\* Sensor.__init__ (the world, the vehicle and the logger header are not state
\* the model reads)
Sensor(info, seq_id, output_dir) ==
    [sensor_info |-> info, seq_id |-> seq_id, is_recording |-> FALSE,
     sensor_actor |-> None, output_directory_path |-> output_dir,
     record_counter_target |-> 0, record_counter_current |-> 0]

\* Sensor.record_this
record_this(s) == [s EXCEPT !.record_counter_target = @ + 1]

\* Sensor.start_recording
start_recording(s) == [s EXCEPT !.is_recording = TRUE]

\* Sensor.stop_recording
stop_recording_noop(s) == s

stop_recording(s) == [s EXCEPT !.is_recording = FALSE]

\* Sensor.spawn: world.spawn_actor returns the new actor's handle
spawn(s, actor) == [s EXCEPT !.sensor_actor = Some(actor)]

\* _data_callback, line 75: the call goes on only while recording
PassesRecordingCheck_always(s) == TRUE

PassesRecordingCheck(s) == s.is_recording

\* _data_callback, line 77: the call goes on only while a capture is pending
PassesCounterCheck_offByOne(s) == s.record_counter_current <= s.record_counter_target

PassesCounterCheck(s) == s.record_counter_current < s.record_counter_target

\* the type of the data the simulator hands to the callback of a blueprint
DataType(blueprint_name) ==
    CASE blueprint_name = "sensor.camera.rgb" -> "Image"
      [] blueprint_name = "sensor.lidar.ray_cast" -> "LidarMeasurement"
      [] blueprint_name = "sensor.other.radar" -> "RadarMeasurement"
      [] OTHER -> "Other"

\* the three isinstance branches: the extension of the file written, "" when
\* no branch matches and nothing is written
SavedExtension(data_type) ==
    CASE data_type = "Image" -> "png"
      [] data_type = "LidarMeasurement" -> "ply"
      [] data_type = "RadarMeasurement" -> "csv"
      [] OTHER -> ""

\* save_path = os.path.join(self.output_directory_path, str(self.seq_id))
save_path(s) == Append(s.output_directory_path, str(s.seq_id))

----------------------------------------------------------------------------
(* Job *)

\* Job.output_directory_path
output_directory_path(job) ==
    path_join(<<io_output_directory, job.name, job.scenario_info[1].name>>)

\* Job.bind_scenario_info
bind_scenario_info(job, info) == [job EXCEPT !.scenario_info = Some(info)]

\* the map named by the recorder file (client.show_recorder_file_info)
MapOf(record_path) == <<"Map", record_path>>

\* sensor_counter += 1
NextSensorCounter_stuck(sensor_counter) == sensor_counter

NextSensorCounter(sensor_counter) == sensor_counter + 1

\* Job.setup, the sensor loop: each new Sensor is spawned and appended to
\* sensor_objs. The actors get fresh ids in the world `episode`.
RECURSIVE SpawnSensors(_, _, _, _, _)
SpawnSensors(sensor_infos, sensor_counter, sensor_objs, output_dir, episode) ==
    IF sensor_infos = <<>> THEN sensor_objs
    ELSE LET actor == [episode |-> episode, id |-> Len(sensor_objs) + 1]
             sensor_obj == spawn(Sensor(Head(sensor_infos), sensor_counter, output_dir), actor)
         IN  SpawnSensors(Tail(sensor_infos), NextSensorCounter(sensor_counter),
                          Append(sensor_objs, sensor_obj), output_dir, episode)

\* Job.setup, the fields of the job afterwards
setup(job, episode) ==
    [job EXCEPT !.client = Some("Client"),
                !.world = Some(MapOf(job.scenario_info[1].record_path)),
                !.vehicle_actor = Some(job.scenario_info[1].ego_vehicle_actor_id),
                !.sensor_objs = SpawnSensors(job.sensor_infos, 0, job.sensor_objs,
                                             output_directory_path(job), episode)]

\* Job.clean, the fields of the job afterwards
clean_keepSensors(job) ==
    [job EXCEPT !.client = None, !.world = None, !.vehicle_actor = None]

clean(job) ==
    [job EXCEPT !.client = None, !.world = None, !.vehicle_actor = None,
                !.sensor_objs = <<>>]

\* the handles of the actors of a list of sensors
ActorsOf(sensor_objs) == {sensor_objs[i].sensor_actor[1] : i \in 1..Len(sensor_objs)}

\* Job.exec, lines 206-212: the replay times, as numerators over den =
\* max_count + 1. total_t / den has the numerator total_t; a jitter j has the
\* numerator j * den.
RECURSIVE ReplayTimes(_, _, _, _)
ReplayTimes(current_t, total_t, den, jitter) ==
    IF jitter = <<>> THEN <<>>
    ELSE LET next_t == current_t + total_t + Head(jitter) * den
         IN  <<next_t>> \o ReplayTimes(next_t, total_t, den, Tail(jitter))

\* while counter < max_counter
LoopGoesOn(c, max_counter) == c < max_counter

----------------------------------------------------------------------------
(* File system *)

\* shutil.rmtree(path)
rmtree_dirs(dirs, path) == {d \in dirs : ~IsPrefix(path, d)}
rmtree_files(files, path) == {f \in files : ~IsPrefix(path, f.dir)}

\* os.makedirs(path)
makedirs(dirs, path) == dirs \cup Prefixes(path)

----------------------------------------------------------------------------
(* The main loop *)

\* for job in loaded_jobs: for scenario_info in loaded_scenario_infos
\* <<0, 0>> when the loops are over
FirstPairing(n_jobs, n_scenarios) ==
    IF n_jobs = 0 \/ n_scenarios = 0 THEN <<0, 0>> ELSE <<1, 1>>

NextPairing_scenarioOuter(j, s, n_jobs, n_scenarios) ==
    IF j < n_jobs THEN <<j + 1, s>>
    ELSE IF s < n_scenarios THEN <<1, s + 1>>
    ELSE <<0, 0>>

NextPairing(j, s, n_jobs, n_scenarios) ==
    IF s < n_scenarios THEN <<j, s + 1>>
    ELSE IF j < n_jobs THEN <<j + 1, 1>>
    ELSE <<0, 0>>

----------------------------------------------------------------------------
(* Inputs *)

FullEntry(bp) == Entry(bp, EntryKeys)
EntryWithout(bp, key) == Entry(bp, EntryKeys \ {key})

File(name, data) == [name |-> name, data |-> data]

FileA == File(<<"a", ".yaml">>,
              <<FullEntry("sensor.camera.rgb"), FullEntry("sensor.other.radar")>>)
FileB == File(<<"b", ".yaml">>, <<FullEntry("sensor.other.imu")>>)
FileAYaml == File(<<"a", ".yaml", ".yaml">>, <<FullEntry("sensor.lidar.ray_cast")>>)
FileBroken == File(<<"c", ".yaml">>,
                   <<FullEntry("sensor.camera.rgb"),
                     EntryWithout("sensor.lidar.ray_cast", "attribute")>>)
FileNotes == File(<<"notes", ".txt">>, <<>>)
FileNoSensors == File(<<"a", ".yaml">>, <<>>)

\* an entry of the scenario YAML file
ScenarioEntry(name, record_file, t_start, t_end) ==
    [name |-> name, record_file |-> record_file,
     time |-> [start |-> t_start, end |-> t_end], ego_vehicle_actor_id |-> 1]

\* the input directories and scenario files of the driver specification
MainListings ==
    { <<FileNotes>>,
      <<FileBroken, FileA, FileNotes, FileB>>,
      <<FileAYaml, FileA>> }

MainScenarioYamls ==
    { <<ScenarioEntry(<<"s1">>, "rec1", 0, MaxTime),
        ScenarioEntry(<<"s2">>, "rec2", 1, MaxTime)>>,
      <<ScenarioEntry(<<"s1">>, "rec1", 0, MaxTime),
        ScenarioEntry(<<"s1">>, "rec2", 1, MaxTime)>> }

\* the jitter bounds of the driver specification: none, and one time unit
MainRandoms == {0, 1}

\* the input directories of the loader specification: up to MaxFiles files
\* with pairwise different names
FileNames ==
    { <<"a", ".yaml">>, <<"b", ".yaml">>, <<"a", ".yaml", ".yaml">>,
      <<"notes", ".txt">>, <<".yaml">> }

FileDatas ==
    { <<>>,
      <<FullEntry("sensor.camera.rgb")>>,
      <<FullEntry("sensor.camera.rgb"), FullEntry("sensor.other.radar")>>,
      <<EntryWithout("sensor.camera.rgb", "blueprint_name")>>,
      <<FullEntry("sensor.camera.rgb"), EntryWithout("sensor.other.radar", "transform")>>,
      <<FullEntry("sensor.camera.rgb"), EntryWithout("sensor.other.radar", "roll")>>,
      <<FullEntry("sensor.camera.rgb"), EntryWithout("sensor.other.radar", "attribute")>> }

LoadListings ==
    { l \in UNION { [1..n -> {File(nm, d) : nm \in FileNames, d \in FileDatas}]
                    : n \in 0..MaxFiles } :
        \A i, j \in 1..Len(l) : i # j => l[i].name # l[j].name }

----------------------------------------------------------------------------
(* Initial states *)

NoCallback == [sensor |-> 0, at |-> "none"]

Init ==
    /\ pc = "load_jobs"
    /\ input_listing \in MainListings
    /\ scenario_yaml \in MainScenarioYamls
    /\ carla_sim_max_count \in 0..MaxCount
    /\ carla_sim_time_random \in MainRandoms
    /\ loaded_jobs = <<>>
    /\ loaded_scenario_infos = <<>>
    /\ ji = 0
    /\ si = 0
    /\ replay_times = <<>>
    /\ counter = 0
    /\ cb_pc = <<>>
    /\ cb_last = NoCallback
    /\ sim_actors = {}
    /\ sim_listening = {}
    /\ sim_replay = <<>>
    /\ fs_dirs = {}
    /\ fs_files = {}
    /\ trace = <<>>

\* the loader on its own, over every input directory of LoadListings
InitLoad ==
    /\ pc = "load_jobs"
    /\ input_listing \in LoadListings
    /\ scenario_yaml = <<>>
    /\ carla_sim_max_count = 0
    /\ carla_sim_time_random = 0
    /\ loaded_jobs = <<>>
    /\ loaded_scenario_infos = <<>>
    /\ ji = 0
    /\ si = 0
    /\ replay_times = <<>>
    /\ counter = 0
    /\ cb_pc = <<>>
    /\ cb_last = NoCallback
    /\ sim_actors = {}
    /\ sim_listening = {}
    /\ sim_replay = <<>>
    /\ fs_dirs = {}
    /\ fs_files = {}
    /\ trace = <<>>

\* the state in which Job.exec is entered for a job without sensors, over every
\* time window, count and jitter bound
InitReplay ==
    /\ pc = "exec"
    /\ input_listing = <<FileNoSensors>>
    /\ \E t_start \in 0..MaxTime, t_end \in 0..MaxTime :
          /\ t_start <= t_end
          /\ scenario_yaml = <<ScenarioEntry(<<"s1">>, "rec1", t_start, t_end)>>
    /\ carla_sim_max_count \in 0..MaxCount
    /\ carla_sim_time_random \in 0..MaxRandom
    /\ loaded_scenario_infos = load_all_scenarios(scenario_yaml)
    /\ loaded_jobs = << setup(bind_scenario_info(load_all(input_listing)[1],
                                                 loaded_scenario_infos[1]), <<1, 1>>) >>
    /\ ji = 1
    /\ si = 1
    /\ replay_times = <<>>
    /\ counter = 0
    /\ cb_pc = <<>>
    /\ cb_last = NoCallback
    /\ sim_actors = {}
    /\ sim_listening = {}
    /\ sim_replay = <<0>>
    /\ fs_dirs = makedirs({}, output_directory_path(loaded_jobs[1]))
    /\ fs_files = {}
    /\ trace = << <<"bind", 1, 1>>, <<"setup", 1, 1>> >>

----------------------------------------------------------------------------
(* The main thread *)

\* the job and the sensors the main loop is working on
CurrentJob == loaded_jobs[ji]
CurrentSensors == CurrentJob.sensor_objs

\* for s in self.sensor_objs: s.start_recording() / s.record_this() /
\* s.stop_recording()
start_all(job) ==
    [job EXCEPT !.sensor_objs = [i \in 1..Len(@) |-> start_recording(@[i])]]
record_all(job) ==
    [job EXCEPT !.sensor_objs = [i \in 1..Len(@) |-> record_this(@[i])]]
stop_all(job) ==
    [job EXCEPT !.sensor_objs = [i \in 1..Len(@) |-> stop_recording(@[i])]]

\* loaded_jobs = job_loader.load_all(runtime.io_input_directory)
LoadJobs ==
    /\ pc = "load_jobs"
    /\ loaded_jobs' = load_all(input_listing)
    /\ pc' = "load_scenarios"
    /\ UNCHANGED <<input_listing, scenario_yaml, carla_sim_max_count, carla_sim_time_random,
                   loaded_scenario_infos, ji, si, replay_times, counter, cb_pc, cb_last,
                   sim_actors, sim_listening, sim_replay, fs_dirs, fs_files, trace>>

\* loaded_scenario_infos = scenario_info_loader.load_all(), and the entry of
\* the two for loops
LoadScenarios ==
    /\ pc = "load_scenarios"
    /\ loaded_scenario_infos' = load_all_scenarios(scenario_yaml)
    /\ LET first == FirstPairing(Len(loaded_jobs), Len(loaded_scenario_infos'))
       IN  /\ ji' = first[1]
           /\ si' = first[2]
           /\ pc' = IF first = <<0, 0>> THEN "done" ELSE "bind"
    /\ UNCHANGED <<input_listing, scenario_yaml, carla_sim_max_count, carla_sim_time_random,
                   loaded_jobs, replay_times, counter, cb_pc, cb_last,
                   sim_actors, sim_listening, sim_replay, fs_dirs, fs_files, trace>>

\* job.bind_scenario_info(scenario_info); isinstance(job, Job) holds of every
\* element of loaded_jobs
Bind ==
    /\ pc = "bind"
    /\ loaded_jobs' = [loaded_jobs EXCEPT
                          ![ji] = bind_scenario_info(@, loaded_scenario_infos[si])]
    /\ trace' = Append(trace, <<"bind", ji, si>>)
    /\ pc' = "setup"
    /\ UNCHANGED <<input_listing, scenario_yaml, carla_sim_max_count, carla_sim_time_random,
                   loaded_scenario_infos, ji, si, replay_times, counter, cb_pc, cb_last,
                   sim_actors, sim_listening, sim_replay, fs_dirs, fs_files>>

\* job.setup(): the output directory is removed and created again, the world
\* of the scenario is loaded (which destroys every actor of the old world),
\* the replay is started at 0.0, and the sensors are spawned and listen
Setup ==
    /\ pc = "setup"
    /\ LET job == CurrentJob
           out == output_directory_path(job)
           after == setup(job, <<ji, si>>)
           spawned == SubSeq(after.sensor_objs, Len(job.sensor_objs) + 1,
                             Len(after.sensor_objs))
       IN  /\ fs_dirs' = makedirs(IF out \in fs_dirs THEN rmtree_dirs(fs_dirs, out)
                                                      ELSE fs_dirs, out)
           /\ fs_files' = IF out \in fs_dirs THEN rmtree_files(fs_files, out) ELSE fs_files
           /\ loaded_jobs' = [loaded_jobs EXCEPT ![ji] = after]
           /\ sim_actors' = ActorsOf(spawned)
           /\ sim_listening' = ActorsOf(spawned)
           /\ cb_pc' = [i \in 1..Len(after.sensor_objs) |-> "idle"]
    /\ sim_replay' = <<0>>
    /\ cb_last' = NoCallback
    /\ trace' = Append(trace, <<"setup", ji, si>>)
    /\ pc' = "exec"
    /\ UNCHANGED <<input_listing, scenario_yaml, carla_sim_max_count, carla_sim_time_random,
                   loaded_scenario_infos, ji, si, replay_times, counter>>

\* job.exec(), lines 203-218: the replay times are computed, each with a jitter
\* drawn from [-carla_sim_time_random, carla_sim_time_random], and the loop is
\* entered
ExecBegin ==
    /\ pc = "exec"
    /\ \E jitter \in [1..carla_sim_max_count ->
                         (0 - carla_sim_time_random)..carla_sim_time_random] :
          LET info == CurrentJob.scenario_info[1]
              den == carla_sim_max_count + 1
          IN  replay_times' = ReplayTimes(info.time_start * den,
                                          info.time_end - info.time_start, den, jitter)
    /\ counter' = 0
    /\ trace' = Append(trace, <<"exec", ji, si>>)
    /\ pc' = IF LoopGoesOn(0, carla_sim_max_count) THEN "seek" ELSE "stop"
    /\ UNCHANGED <<input_listing, scenario_yaml, carla_sim_max_count, carla_sim_time_random,
                   loaded_jobs, loaded_scenario_infos, ji, si, cb_pc, cb_last,
                   sim_actors, sim_listening, sim_replay, fs_dirs, fs_files>>

\* job.exec(), lines 219-226: the first half of a loop step, up to the sleep
\* that follows the replay seek
ExecSeek ==
    /\ pc = "seek"
    /\ loaded_jobs' = [loaded_jobs EXCEPT
                          ![ji] = IF counter = 0 THEN start_all(@)
                                                 ELSE @]
    /\ counter' = counter + 1
    /\ sim_replay' = Append(sim_replay, replay_times[counter'])
    /\ pc' = "record"
    /\ UNCHANGED <<input_listing, scenario_yaml, carla_sim_max_count, carla_sim_time_random,
                   loaded_scenario_infos, ji, si, replay_times, cb_pc, cb_last,
                   sim_actors, sim_listening, fs_dirs, fs_files, trace>>

\* job.exec(), lines 229-234: the second half of a loop step, up to the sleep
\* that follows the record_this calls, and the loop test
ExecRecord ==
    /\ pc = "record"
    /\ loaded_jobs' = [loaded_jobs EXCEPT ![ji] = record_all(@)]
    /\ pc' = IF LoopGoesOn(counter, carla_sim_max_count) THEN "seek" ELSE "stop"
    /\ UNCHANGED <<input_listing, scenario_yaml, carla_sim_max_count, carla_sim_time_random,
                   loaded_scenario_infos, ji, si, replay_times, counter, cb_pc, cb_last,
                   sim_actors, sim_listening, sim_replay, fs_dirs, fs_files, trace>>

\* job.exec(), lines 237-242: the sensors stop recording and exec returns
ExecStop ==
    /\ pc = "stop"
    /\ loaded_jobs' = [loaded_jobs EXCEPT ![ji] = stop_all(@)]
    /\ replay_times' = <<>>
    /\ pc' = "clean"
    /\ UNCHANGED <<input_listing, scenario_yaml, carla_sim_max_count, carla_sim_time_random,
                   loaded_scenario_infos, ji, si, counter, cb_pc, cb_last,
                   sim_actors, sim_listening, sim_replay, fs_dirs, fs_files, trace>>

\* job.clean(), and the step of the two for loops to the next pairing. The
\* sensors stop listening and their actors are destroyed; a callback that is
\* under way is taken to have returned during the sleep that opens clean.
Clean ==
    /\ pc = "clean"
    /\ sim_listening' = sim_listening \ ActorsOf(CurrentSensors)
    /\ sim_actors' = sim_actors \ ActorsOf(CurrentSensors)
    /\ loaded_jobs' = [loaded_jobs EXCEPT ![ji] = clean(@)]
    /\ cb_pc' = <<>>
    /\ cb_last' = NoCallback
    /\ trace' = Append(trace, <<"clean", ji, si>>)
    /\ LET next == NextPairing(ji, si, Len(loaded_jobs), Len(loaded_scenario_infos))
       IN  /\ ji' = next[1]
           /\ si' = next[2]
           /\ pc' = IF next = <<0, 0>> THEN "done" ELSE "bind"
    /\ UNCHANGED <<input_listing, scenario_yaml, carla_sim_max_count, carla_sim_time_random,
                   loaded_scenario_infos, replay_times, counter, sim_replay,
                   fs_dirs, fs_files>>

----------------------------------------------------------------------------
(* The simulator's callback thread *)

\* the sensors of the running job whose actor delivers data
Listening ==
    IF ji = 0 THEN {}
    ELSE {i \in DOMAIN cb_pc : /\ i <= Len(CurrentSensors)
                               /\ CurrentSensors[i].sensor_actor[1] \in sim_listening}

\* _data_callback, lines 74-76: the simulator calls the callback of sensor i,
\* which returns at once unless the sensor is recording
DataCallbackEnter(i) ==
    /\ i \in Listening
    /\ cb_pc[i] = "idle"
    /\ IF PassesRecordingCheck(CurrentSensors[i])
       THEN /\ cb_pc' = [cb_pc EXCEPT ![i] = "line77"]
            /\ cb_last' = [sensor |-> i, at |-> "recording"]
       ELSE /\ cb_pc' = cb_pc
            /\ cb_last' = [sensor |-> i, at |-> "not_recording"]
    /\ UNCHANGED <<pc, input_listing, scenario_yaml, carla_sim_max_count,
                   carla_sim_time_random, loaded_jobs, loaded_scenario_infos, ji, si,
                   replay_times, counter, sim_actors, sim_listening, sim_replay,
                   fs_dirs, fs_files, trace>>

\* _data_callback, lines 77-101: the callback returns if no capture is
\* pending; otherwise it counts the frame and writes it under save_path, in
\* the format of its data type (no file for a type none of the branches knows)
DataCallbackSave(i) ==
    /\ i \in DOMAIN cb_pc
    /\ cb_pc[i] = "line77"
    /\ cb_pc' = [cb_pc EXCEPT ![i] = "idle"]
    /\ LET s == CurrentSensors[i]
           ext == SavedExtension(DataType(s.sensor_info.blueprint_name))
           frame == s.record_counter_current + 1
       IN  IF PassesCounterCheck(s)
           THEN /\ loaded_jobs' = [loaded_jobs EXCEPT
                                      ![ji].sensor_objs[i].record_counter_current = frame]
                /\ IF ext # ""
                   THEN /\ fs_files' = fs_files \cup
                                {[dir |-> save_path(s), frame |-> frame, ext |-> ext,
                                  by |-> <<ji, si>>]}
                        /\ fs_dirs' = makedirs(fs_dirs, save_path(s))
                        /\ cb_last' = [sensor |-> i, at |-> "saved"]
                   ELSE /\ UNCHANGED <<fs_files, fs_dirs>>
                        /\ cb_last' = [sensor |-> i, at |-> "counted"]
           ELSE /\ cb_last' = [sensor |-> i, at |-> "exhausted"]
                /\ UNCHANGED <<loaded_jobs, fs_files, fs_dirs>>
    /\ UNCHANGED <<pc, input_listing, scenario_yaml, carla_sim_max_count,
                   carla_sim_time_random, loaded_scenario_infos, ji, si, replay_times,
                   counter, sim_actors, sim_listening, sim_replay, trace>>

----------------------------------------------------------------------------
(* Specifications *)

Next ==
    \/ LoadJobs
    \/ LoadScenarios
    \/ Bind
    \/ Setup
    \/ ExecBegin
    \/ ExecSeek
    \/ ExecRecord
    \/ ExecStop
    \/ Clean
    \/ \E i \in DOMAIN cb_pc : DataCallbackEnter(i)
    \/ \E i \in DOMAIN cb_pc : DataCallbackSave(i)

\* the whole program
Spec == Init /\ [][Next]_vars

\* JobYamlLoader.load_all on its own
NextLoad == LoadJobs
SpecLoad == InitLoad /\ [][NextLoad]_vars

\* the replay-time computation of Job.exec on its own
NextReplay == ExecBegin
SpecReplay == InitReplay /\ [][NextReplay]_vars

----------------------------------------------------------------------------
(* Properties *)

\* the main thread is between the return of setup and the return of clean
JobIsSetUp == pc \in {"exec", "seek", "record", "stop", "clean"}

\* the step is a step of the callback of sensor i
CallbackStepOf(i) ==
    /\ i \in DOMAIN cb_pc
    /\ i \in DOMAIN cb_pc'
    /\ cb_last' # cb_last
    /\ cb_last'.sensor = i

\* the files of the running pairing under the subdirectory of sensor s
FilesOf(s) == {f \in fs_files : f.dir = save_path(s) /\ f.by = <<ji, si>>}

\* C1: a call of _data_callback made while the sensor is not recording returns
\* at once: it writes no file, creates no directory, and leaves
\* record_counter_current (and every other field) as it was. This covers the
\* calls before the first start_recording and the calls after stop_recording.
C1_NotRecordingCallbackPersistsNothing ==
    [][ \A i \in DOMAIN cb_pc :
          ( /\ CallbackStepOf(i)
            /\ cb_pc[i] = "idle"
            /\ ~CurrentSensors[i].is_recording )
          => ( /\ cb_pc'[i] = "idle"
               /\ cb_last'.at = "not_recording"
               /\ loaded_jobs' = loaded_jobs
               /\ fs_files' = fs_files
               /\ fs_dirs' = fs_dirs ) ]_vars

\* C1 witness: after stop_recording, with a capture still pending, a callback
\* was delivered and dropped
C1_Witness ==
    /\ pc = "clean"
    /\ cb_last.at = "not_recording"
    /\ LET s == CurrentSensors[cb_last.sensor]
       IN  /\ s.record_counter_current < s.record_counter_target
           /\ FilesOf(s) = {}

\* the counters of every sensor of every job are in order, and a sensor has
\* written exactly record_counter_current files if its data type is one that
\* is written
CountersInOrder ==
    \A j \in 1..Len(loaded_jobs) : \A k \in 1..Len(loaded_jobs[j].sensor_objs) :
        LET s == loaded_jobs[j].sensor_objs[k]
        IN  /\ 0 <= s.record_counter_current
            /\ s.record_counter_current <= s.record_counter_target
            /\ (j = ji /\ JobIsSetUp) => Cardinality(FilesOf(s)) <= s.record_counter_target

\* a callback that finds no capture pending changes neither the sensor nor the
\* file system
ExhaustedCallbackPersistsNothing ==
    \A i \in DOMAIN cb_pc :
        ( /\ CallbackStepOf(i)
          /\ cb_pc[i] = "line77"
          /\ CurrentSensors[i].record_counter_current
                >= CurrentSensors[i].record_counter_target )
        => ( /\ loaded_jobs' = loaded_jobs
             /\ fs_files' = fs_files
             /\ fs_dirs' = fs_dirs )

\* C2: in every reachable state 0 <= record_counter_current <=
\* record_counter_target for every sensor, no sensor has more files than its
\* target, and a callback that finds record_counter_current >=
\* record_counter_target persists nothing.
C2_NeverMoreFramesThanAsked ==
    [](CountersInOrder) /\ [][ExhaustedCallbackPersistsNothing]_vars

\* C2 witness: a callback found every requested capture already persisted
C2_Witness ==
    /\ cb_last.at = "exhausted"
    /\ LET s == CurrentSensors[cb_last.sensor]
       IN  /\ s.record_counter_target >= 1
           /\ s.record_counter_current = s.record_counter_target
           /\ Cardinality(FilesOf(s)) = s.record_counter_target

\* C3: when exec returns, every sensor has persisted one frame per record_this
\* signal: record_counter_current = record_counter_target = carla_sim_max_count.
C3_EverySignalPersisted ==
    pc = "clean" =>
        \A i \in 1..Len(CurrentSensors) :
            /\ CurrentSensors[i].record_counter_target = carla_sim_max_count
            /\ CurrentSensors[i].record_counter_current = carla_sim_max_count

\* the sensors of the running job are numbered 0, 1, ... in descriptor order,
\* each built from its own descriptor, and no two share a subdirectory
SensorsNumbered ==
    JobIsSetUp =>
        /\ Len(CurrentSensors) = Len(CurrentJob.sensor_infos)
        /\ \A i \in 1..Len(CurrentSensors) :
              /\ CurrentSensors[i].seq_id = i - 1
              /\ CurrentSensors[i].sensor_info = CurrentJob.sensor_infos[i]
              /\ save_path(CurrentSensors[i])
                    = Append(output_directory_path(CurrentJob), str(i - 1))
        /\ \A i, j \in 1..Len(CurrentSensors) :
              i # j => save_path(CurrentSensors[i]) # save_path(CurrentSensors[j])

\* every file a step adds is added by the callback of one sensor, under the
\* job's output directory and the subdirectory of that sensor's number
FramesUnderOwnSubdirectory ==
    \A f \in fs_files' \ fs_files :
        \E i \in DOMAIN cb_pc :
            /\ CallbackStepOf(i)
            /\ f.dir = Append(output_directory_path(CurrentJob), str(i - 1))

\* C4: setup numbers the sensors 0 .. len(sensor_infos)-1 in descriptor order
\* with no number repeated, every frame a sensor persists is written under
\* <job output directory>/<seq_id>, and two sensors of a pairing never write
\* into the same subdirectory.
C4_OneSubdirectoryPerSensor ==
    [](SensorsNumbered) /\ [][FramesUnderOwnSubdirectory]_vars

\* C4 witness: two sensors of one pairing have each written a file
C4_Witness ==
    \E f, g \in fs_files : f.by = g.by /\ f.dir # g.dir

\* the calls the main loop makes for n_jobs jobs and n_scenarios scenarios
Methods == <<"bind", "setup", "exec", "clean">>
ExpectedTrace(n_jobs, n_scenarios) ==
    [k \in 1..(4 * n_jobs * n_scenarios) |->
        <<Methods[((k - 1) % 4) + 1],
          (((k - 1) \div 4) \div n_scenarios) + 1,
          (((k - 1) \div 4) % n_scenarios) + 1>>]

\* C5: the calls made so far are the first calls of: for each job in order,
\* for each scenario in order, bind_scenario_info, setup, exec, clean; when
\* the run is over all of them were made; and the sensor actors alive at any
\* time all belong to one pairing, the one being processed.
C5_EveryPairingOnceInOrder ==
    LET expected == ExpectedTrace(Len(loaded_jobs), Len(loaded_scenario_infos))
    IN  /\ Len(trace) <= Len(expected)
        /\ trace = SubSeq(expected, 1, Len(trace))
        /\ pc = "done" => trace = expected
        /\ pc \in {"load_jobs", "load_scenarios"} => trace = <<>>
        /\ \A a \in sim_actors : JobIsSetUp /\ a.episode = <<ji, si>>
        /\ pc \in {"bind", "setup", "done"} => sim_actors = {} /\ sim_listening = {}

\* C5 witness: a run over two jobs and two scenarios is over
C5_Witness ==
    /\ pc = "done"
    /\ Len(loaded_jobs) = 2
    /\ Len(loaded_scenario_infos) = 2
    /\ Len(trace) = 16

\* the jobs load_all should return if it names each job after the file
\* without its '.yaml' suffix
RECURSIVE ExpectedJobs(_)
ExpectedJobs(listing) ==
    IF listing = <<>> THEN <<>>
    ELSE LET f == Head(listing)
             well_formed == \A k \in 1..Len(f.data) : f.data[k].keys = EntryKeys
         IN  (IF endswith_yaml(f.name) /\ well_formed
              THEN <<Job(strip_suffix_yaml(f.name),
                         [k \in 1..Len(f.data) |-> SensorInfo(f.data[k].blueprint_name)])>>
              ELSE <<>>)
             \o ExpectedJobs(Tail(listing))

\* C6: load_all returns exactly one Job per well-formed .yaml file, in the
\* order of the files, holding the file's sensors and named after the file
\* without its '.yaml' suffix; a file whose decoding raises KeyError yields no
\* Job.
C6_LoaderRecovers ==
    pc = "load_scenarios" => loaded_jobs = ExpectedJobs(input_listing)

\* What holds of load_all: the same, with each job named as the loader names
\* it.
LoaderRecoversUpToNames ==
    pc = "load_scenarios" =>
        /\ Len(loaded_jobs) = Len(ExpectedJobs(input_listing))
        /\ \A k \in 1..Len(loaded_jobs) :
              /\ loaded_jobs[k].sensor_infos = ExpectedJobs(input_listing)[k].sensor_infos
              /\ replace_yaml(loaded_jobs[k].name) = replace_yaml(ExpectedJobs(input_listing)[k].name)

\* C7: exec makes carla_sim_max_count loop steps; in each the replay seek to
\* replay_times[counter-1] comes before record_this reaches the sensors;
\* the sensors record from the first step on; and when exec returns every
\* sensor has record_counter_target = carla_sim_max_count and is not
\* recording, also when carla_sim_max_count is 0.
C7_ExecStepsInOrder ==
    /\ pc \in {"seek", "record", "stop"} =>
          /\ Len(replay_times) = carla_sim_max_count
          /\ Len(sim_replay) = counter + 1
          /\ \A k \in 1..counter : sim_replay[k + 1] = replay_times[k]
    /\ pc = "seek" =>
          /\ counter < carla_sim_max_count
          /\ \A i \in 1..Len(CurrentSensors) :
                /\ CurrentSensors[i].record_counter_target = counter
                /\ CurrentSensors[i].is_recording = (counter > 0)
    /\ pc = "record" =>
          /\ counter \in 1..carla_sim_max_count
          /\ \A i \in 1..Len(CurrentSensors) :
                /\ CurrentSensors[i].record_counter_target = counter - 1
                /\ CurrentSensors[i].is_recording
    /\ pc = "stop" =>
          /\ counter = carla_sim_max_count
          /\ \A i \in 1..Len(CurrentSensors) :
                /\ CurrentSensors[i].record_counter_target = counter
                /\ CurrentSensors[i].is_recording = (counter > 0)
    /\ pc = "clean" =>
          /\ counter = carla_sim_max_count
          /\ Len(sim_replay) = carla_sim_max_count + 1
          /\ \A i \in 1..Len(CurrentSensors) :
                /\ CurrentSensors[i].record_counter_target = carla_sim_max_count
                /\ ~CurrentSensors[i].is_recording

\* C7 witness: exec has returned after MaxCount steps over two sensors
C7_Witness ==
    /\ pc = "clean"
    /\ carla_sim_max_count = MaxCount
    /\ Len(CurrentSensors) = 2
    /\ counter = MaxCount

\* C8: the replay sequence has carla_sim_max_count entries and each lies in
\* [time_start, time_end] (times are numerators over carla_sim_max_count + 1).
C8_ReplayTimesInWindow ==
    pc \in {"seek", "stop"} =>
        LET info == CurrentJob.scenario_info[1]
            den == carla_sim_max_count + 1
        IN  /\ Len(replay_times) = carla_sim_max_count
            /\ \A k \in 1..Len(replay_times) :
                  /\ info.time_start * den <= replay_times[k]
                  /\ replay_times[k] <= info.time_end * den

\* What holds of the replay sequence: its length, and the k-th entry is k
\* steps of total_t / (max_count + 1) from time_start, give or take k times
\* the jitter bound.
ReplayTimesWithinJitter ==
    pc \in {"seek", "stop"} =>
        LET info == CurrentJob.scenario_info[1]
            den == carla_sim_max_count + 1
            total_t == info.time_end - info.time_start
        IN  /\ Len(replay_times) = carla_sim_max_count
            /\ \A k \in 1..Len(replay_times) :
                  /\ replay_times[k] >= info.time_start * den + k * total_t
                                          - k * carla_sim_time_random * den
                  /\ replay_times[k] <= info.time_start * den + k * total_t
                                          + k * carla_sim_time_random * den

\* C9: a job that is not set up holds no client, world, vehicle or sensor; its
\* name and descriptors are those it was loaded with and clean leaves it bound
\* to the scenario it ran; and right after setup it holds one fresh Sensor per
\* descriptor, with both counters 0 and not recording.
C9_NoStateCarriedOver ==
    /\ \A j \in 1..Len(loaded_jobs) :
          /\ loaded_jobs[j].name = load_all(input_listing)[j].name
          /\ loaded_jobs[j].sensor_infos = load_all(input_listing)[j].sensor_infos
          /\ (j # ji \/ ~JobIsSetUp) =>
                /\ loaded_jobs[j].client = None
                /\ loaded_jobs[j].world = None
                /\ loaded_jobs[j].vehicle_actor = None
                /\ loaded_jobs[j].sensor_objs = <<>>
    /\ (trace # <<>> /\ trace[Len(trace)][1] = "clean") =>
          LET last == trace[Len(trace)]
          IN  loaded_jobs[last[2]].scenario_info = Some(loaded_scenario_infos[last[3]])
    /\ pc = "exec" =>
          /\ Len(CurrentSensors) = Len(CurrentJob.sensor_infos)
          /\ \A i \in 1..Len(CurrentSensors) :
                /\ CurrentSensors[i].record_counter_target = 0
                /\ CurrentSensors[i].record_counter_current = 0
                /\ ~CurrentSensors[i].is_recording
                /\ CurrentSensors[i].sensor_actor[1].episode = <<ji, si>>

\* C9 witness: setup has just returned for a job whose earlier pairing
\* persisted frames
C9_Witness ==
    /\ pc = "exec"
    /\ Len(CurrentSensors) = 2
    /\ \E f \in fs_files : f.by[1] = ji /\ f.by[2] # si

\* the output directories of two different pairings are different
PairingDirectoriesDiffer ==
    pc \notin {"load_jobs", "load_scenarios"} =>
        \A j1, j2 \in 1..Len(loaded_jobs) : \A s1, s2 \in 1..Len(loaded_scenario_infos) :
            <<j1, s1>> # <<j2, s2>> =>
                path_join(<<io_output_directory, loaded_jobs[j1].name,
                            loaded_scenario_infos[s1].name>>)
                # path_join(<<io_output_directory, loaded_jobs[j2].name,
                              loaded_scenario_infos[s2].name>>)

\* C10: no step of the run removes a frame that an earlier pairing of the run
\* wrote (the file system holds nothing when the run starts, so every file is
\* such a frame).
C10_EarlierOutputKept ==
    [][ \A f \in fs_files : f \in fs_files' ]_vars

====
